---- MODULE Spec2Model ----
(***************************************************************************)
(* Quiz Master backend: the Express request handlers of Backend/Server.js   *)
(* over the SQLite persistence layer of Backend/Database.js.                *)
(*                                                                         *)
(* A step of the model is one SQL statement together with the JavaScript   *)
(* that runs around it on the event loop: the synchronous part of a        *)
(* handler up to and including the first statement it issues, or a         *)
(* statement's execution followed by its completion callback.  Statements  *)
(* of different requests, and the add-question statements of one request,  *)
(* execute in any order (node-sqlite3 runs queued statements without an    *)
(* ordering guarantee).                                                    *)
(*                                                                         *)
(* Storage faults of the environment (I/O errors) are not modelled; the    *)
(* statement failures modelled are those the schema's constraints produce  *)
(* (UNIQUE, NOT NULL).  Foreign keys are declared but SQLite does not      *)
(* enforce them unless PRAGMA foreign_keys is set, and the code never sets *)
(* it.  Columns no handler branches on (description, time_limit,           *)
(* created_at, password hash) are left out of the rows.                    *)
(***************************************************************************)
EXTENDS Integers, Sequences, FiniteSets, TLC

(* ------------------------------ bounds --------------------------------- *)
MaxQuizzes == 1
MaxQuestions == 2
MaxResults == 1
MaxInFlight == 2

(* ------------------------- values of the inputs ------------------------ *)
\* JavaScript undefined and SQL NULL, for values that are otherwise strings
Undefined == "undefined"
Null == "null"
\* a request without an Authorization header
NoToken == [sig |-> "absent"]
\* a response without a payload a claim reads
NoBody == [empty |-> TRUE]
\* a free slot of the in-flight table
Idle == [op |-> "idle"]

JWT_SECRET == "quiz-master-secret-key-2024"
MinPasswordLength == 6

Usernames == {"alice", "bob"}
Emails == {"a@x", "b@x"}
\* a password is a sequence of characters; only its length is branched on
Passwords == {<<>>, <<"p", "w">>, <<"s", "e", "c", "r", "e", "t">>}

\* a title is a sequence of characters, so that trim() has something to do
BlankTitles == {<<>>, <<" ">>}
PaddedTitle == <<" ", "J", " ">>

\* the question objects a client submits: text, options[], correct
QuestionInputs ==
    { [text |-> "Q1", options |-> <<"A", "B">>, correct |-> 0],
      [text |-> "Q2", options |-> <<"A", "", "C", "D">>, correct |-> 3],
      [text |-> Undefined, options |-> <<"A", "B">>, correct |-> 1] }

QuestionLists == UNION { [1..n -> QuestionInputs] : n \in 0..MaxQuestions }

OneQuestion == <<[text |-> "Q1", options |-> <<"A", "B">>, correct |-> 0]>>

\* the bodies of the Create-Quiz requests: every question list under a
\* title that trims to "J", and the blank titles with one list
QuizBodies ==
    {[title |-> PaddedTitle, questions |-> qs] : qs \in QuestionLists}
    \cup {[title |-> t, questions |-> OneQuestion] : t \in BlankTitles}

QuizIds == 1..MaxQuizzes

\* a score is a JavaScript number or undefined (the field is missing)
NoScore == [type |-> "undefined"]
Score(n) == [type |-> "number", value |-> n]
\* the bodies of the Save-Quiz-Result requests: complete ones with a zero
\* and a non-zero score, and ones with each field missing in turn (0 stands
\* for every falsy quizId, totalQuestions and timeTaken; answers is
\* undefined or an array of chosen option indices)
ResultBody(quizId, score, totalQuestions, timeTaken, answers) ==
    [quizId |-> quizId, score |-> score, totalQuestions |-> totalQuestions,
     timeTaken |-> timeTaken, answers |-> answers]

ResultBodies ==
    {ResultBody(q, Score(n), 2, 30, "[0,1]") : q \in QuizIds, n \in {0, 2}}
    \cup {ResultBody(0, Score(2), 2, 30, "[0,1]"),
          ResultBody(1, NoScore, 2, 30, "[0,1]"),
          ResultBody(1, Score(2), 0, 30, "[0,1]"),
          ResultBody(1, Score(2), 2, 0, "[0,1]"),
          ResultBody(1, Score(2), 2, 30, Undefined)}

VARIABLES
    users,           \* rows of table users
    nextUserId,      \* AUTOINCREMENT of users.id
    quizzes,         \* rows of table quizzes
    nextQuizId,      \* AUTOINCREMENT of quizzes.id
    questions,       \* rows of table questions
    nextQuestionId,  \* AUTOINCREMENT of questions.id
    results,         \* rows of table quiz_results
    nextResultId,    \* AUTOINCREMENT of quiz_results.id
    inflight,        \* requests whose handler waits for a statement
    last,            \* the response the last responding step sent
    submitted        \* history: quiz id -> the question list of the
                     \* Create-Quiz request answered 201 for it (<<>>: none)

vars == <<users, nextUserId, quizzes, nextQuizId, questions, nextQuestionId,
          results, nextResultId, inflight, last, submitted>>

store == <<users, nextUserId, quizzes, nextQuizId, questions, nextQuestionId,
           results, nextResultId>>

(* ----------------------------- tokens ---------------------------------- *)
\* jwt.sign({ userId, username }, JWT_SECRET)
Sign(userId, username, secret) ==
    [userId |-> userId, username |-> username, sig |-> secret]

\* the credentials a request can carry: none, a token signed with another
\* key, or the token Register/Login issue for an existing user
Tokens ==
    {NoToken}
    \cup {Sign(1, "alice", "forged")}
    \cup {Sign(u.id, u.username, JWT_SECRET) : u \in users}

\* jwt.verify(token, JWT_SECRET, ...): err unless the signature matches
VerifyFailsMutant(token) == FALSE
VerifyFails(token) == token.sig # JWT_SECRET

\* the middleware: 401 without a token, 403 when verification fails,
\* otherwise 0 (next() is called with req.user set)
authenticateToken(token) ==
    IF token = NoToken THEN 401
    ELSE IF VerifyFails(token) THEN 403
    ELSE 0

(* ---------------------------- responses -------------------------------- *)
\* op: the route; token: the credential of the request; id: the :id or
\* quizId of the request (0 when it has none); status: the HTTP status;
\* body: the payload a claim reads; dbCalls: persistence operations the
\* request invoked; responses: how many times the handler responded
Response(op, token, id, status, body, dbCalls, responses) ==
    [op |-> op, token |-> token, id |-> id, status |-> status, body |-> body,
     dbCalls |-> dbCalls, responses |-> responses]

FreeSlots == {s \in 1..MaxInFlight : inflight[s] = Idle}
FreeSlot == CHOOSE s \in FreeSlots : \A t \in FreeSlots : s <= t

\* the state after construction: the four tables exist and are empty
Init ==
    /\ users = {}
    /\ nextUserId = 1
    /\ quizzes = {}
    /\ nextQuizId = 1
    /\ questions = {}
    /\ nextQuestionId = 1
    /\ results = {}
    /\ nextResultId = 1
    /\ inflight = [s \in 1..MaxInFlight |-> Idle]
    /\ last = Response("none", NoToken, 0, 0, NoBody, 0, 0)
    /\ submitted = [q \in QuizIds |-> <<>>]

(* --------------------------- Database.js ------------------------------- *)
\* String.prototype.trim on a sequence of characters
RECURSIVE TrimLeft(_)
TrimLeft(t) ==
    IF t # <<>> /\ Head(t) = " " THEN TrimLeft(Tail(t)) ELSE t

RECURSIVE TrimRight(_)
TrimRight(t) ==
    IF t # <<>> /\ t[Len(t)] = " " THEN TrimRight(SubSeq(t, 1, Len(t) - 1)) ELSE t

Trim(t) == TrimRight(TrimLeft(t))

\* options[i] of a JavaScript array (0-based): undefined past its end
OptionAt(options, i) ==
    IF i + 1 <= Len(options) THEN options[i + 1] ELSE Undefined

\* v || '' and v || null on a string or undefined
OrEmpty(v) == IF v = Undefined \/ v = "" THEN "" ELSE v
OrNull(v) == IF v = Undefined \/ v = "" THEN Null ELSE v

\* the questionData object the Create-Quiz handler builds for question
\* number index (0-based) of the request
QuestionData(quizId, question, index) ==
    [quiz_id |-> quizId,
     question_text |-> question.text,
     option_a |-> OrEmpty(OptionAt(question.options, 0)),
     option_b |-> OrEmpty(OptionAt(question.options, 1)),
     option_c |-> OrNull(OptionAt(question.options, 2)),
     option_d |-> OrNull(OptionAt(question.options, 3)),
     correct_answer |-> question.correct,
     question_order |-> index]

\* INSERT INTO questions fails when a NOT NULL column is bound to NULL
\* (node-sqlite3 binds undefined as NULL)
AddQuestionFails(d) ==
    \/ d.question_text \in {Undefined, Null}
    \/ d.option_a \in {Undefined, Null}
    \/ d.option_b \in {Undefined, Null}

\* the row INSERT INTO questions stores
QuestionRow(id, d) ==
    [id |-> id, quiz_id |-> d.quiz_id, question_text |-> d.question_text,
     option_a |-> d.option_a, option_b |-> d.option_b, option_c |-> d.option_c,
     option_d |-> d.option_d, correct_answer |-> d.correct_answer,
     question_order |-> d.question_order]

\* ORDER BY question_order (rows of equal order in rowid order)
OrderKey(r) == r.question_order

RECURSIVE SortRows(_)
SortRows(rows) ==
    IF rows = {} THEN <<>>
    ELSE LET first == CHOOSE r \in rows : \A o \in rows :
                          \/ OrderKey(r) < OrderKey(o)
                          \/ (OrderKey(r) = OrderKey(o) /\ r.id <= o.id)
         IN <<first>> \o SortRows(rows \ {first})

\* [a, b, c, d].filter(opt => opt !== null && opt !== undefined && opt !== '')
RECURSIVE FilterOptions(_)
FilterOptions(opts) ==
    IF opts = <<>> THEN <<>>
    ELSE IF Head(opts) \in {Null, Undefined, ""} THEN FilterOptions(Tail(opts))
    ELSE <<Head(opts)>> \o FilterOptions(Tail(opts))

\* the object getQuizById makes of a question row
FormatQuestion(q) ==
    [id |-> q.id,
     text |-> q.question_text,
     options |-> FilterOptions(<<q.option_a, q.option_b, q.option_c, q.option_d>>),
     correct |-> q.correct_answer]

\* SELECT * FROM questions WHERE quiz_id = ? ORDER BY question_order, mapped
FormattedQuestions(quizId) ==
    LET rows == SortRows({q \in questions : q.quiz_id = quizId})
    IN [i \in 1..Len(rows) |-> FormatQuestion(rows[i])]

\* SELECT * FROM quizzes WHERE id = ?
QuizRows(quizId) == {z \in quizzes : z.id = quizId}

\* DELETE FROM questions WHERE quiz_id = ?
DeleteQuestionsOf(quizId) ==
    {q \in questions : q.quiz_id # quizId}

\* DELETE FROM quizzes WHERE id = ? AND user_id = ?
DeleteQuizRow(quizId, userId) ==
    {z \in quizzes : ~(z.id = quizId /\ z.user_id = userId)}

(* ---------------------- Server.js: quiz handlers ----------------------- *)
ProtectedOps ==
    {"my-quizzes", "create", "get", "delete", "save-result", "my-results"}

\* a request to a protected route that the middleware answers itself:
\* next() is not called, so the route's handler does not run
Reject(op, token) ==
    /\ authenticateToken(token) # 0
    /\ last' = Response(op, token, 0, authenticateToken(token), NoBody, 0, 1)
    /\ UNCHANGED <<store, inflight, submitted>>

\* the completion callback of an add-question write responds when the
\* count of settled writes reaches the number of questions
CreateQuizRespondsMutant(questionsAdded, total, hasError) ==
    hasError \/ questionsAdded = total
CreateQuizResponds(questionsAdded, total, hasError) ==
    questionsAdded = total

\* ... with 500 when any write failed, 201 otherwise
CreateQuizStatusMutant(hasError) == 201
CreateQuizStatus(hasError) == IF hasError THEN 500 ELSE 201

\* POST /api/quizzes up to the quiz insert and its callback, which issues
\* one add-question write per question
CreateQuiz(token, title, qs) ==
    /\ authenticateToken(token) = 0
    /\ IF title = <<>> \/ Trim(title) = <<>> \/ Len(qs) = 0 THEN
           /\ last' = Response("create", token, 0, 400, NoBody, 0, 1)
           /\ UNCHANGED <<store, inflight, submitted>>
       ELSE
           /\ FreeSlots # {}
           /\ nextQuizId <= MaxQuizzes
           /\ quizzes' = quizzes \cup
                  {[id |-> nextQuizId, title |-> Trim(title), user_id |-> token.userId]}
           /\ nextQuizId' = nextQuizId + 1
           /\ inflight' = [inflight EXCEPT ![FreeSlot] =
                  [op |-> "create", token |-> token, quizId |-> nextQuizId,
                   questions |-> qs, pending |-> 1..Len(qs), questionsAdded |-> 0,
                   hasError |-> FALSE, responses |-> 0]]
           /\ UNCHANGED <<users, nextUserId, questions, nextQuestionId, results,
                          nextResultId, last, submitted>>

\* one add-question write of a Create-Quiz request and its callback
AddQuestion(s, i) ==
    /\ inflight[s].op = "create"
    /\ i \in inflight[s].pending
    /\ LET r == inflight[s]
           d == QuestionData(r.quizId, r.questions[i], i - 1)
           err == AddQuestionFails(d)
           hasError == r.hasError \/ err
           added == r.questionsAdded + 1
           total == Len(r.questions)
           responds == CreateQuizResponds(added, total, hasError)
           status == CreateQuizStatus(hasError)
           pending == r.pending \ {i}
       IN /\ questions' = IF err THEN questions
                          ELSE questions \cup {QuestionRow(nextQuestionId, d)}
          /\ nextQuestionId' = IF err THEN nextQuestionId ELSE nextQuestionId + 1
          /\ inflight' = [inflight EXCEPT ![s] =
                 IF pending = {} THEN Idle
                 ELSE [r EXCEPT !.pending = pending, !.questionsAdded = added,
                                !.hasError = hasError,
                                !.responses = @ + (IF responds THEN 1 ELSE 0)]]
          /\ last' = IF responds
                     THEN Response("create", r.token, r.quizId, status,
                                   [settled |-> added, total |-> total],
                                   1 + total, r.responses + 1)
                     ELSE last
          /\ submitted' = IF responds /\ status = 201
                          THEN [submitted EXCEPT ![r.quizId] = r.questions]
                          ELSE submitted
          /\ UNCHANGED <<users, nextUserId, quizzes, nextQuizId, results, nextResultId>>

\* GET /api/quizzes/:id up to getQuizById's first query and its callback
GetQuiz(token, quizId) ==
    /\ authenticateToken(token) = 0
    /\ IF QuizRows(quizId) = {} THEN
           /\ last' = Response("get", token, quizId, 404, NoBody, 1, 1)
           /\ UNCHANGED <<store, inflight, submitted>>
       ELSE
           /\ FreeSlots # {}
           /\ inflight' = [inflight EXCEPT ![FreeSlot] =
                  [op |-> "get", token |-> token, quizId |-> quizId,
                   quiz |-> CHOOSE z \in QuizRows(quizId) : TRUE]]
           /\ UNCHANGED <<store, last, submitted>>

\* getQuizById's second query and its callback, and the handler's response
GetQuizQuestions(s) ==
    /\ inflight[s].op = "get"
    /\ LET r == inflight[s] IN
       last' = Response("get", r.token, r.quizId, 200,
                        [quiz |-> r.quiz, questions |-> FormattedQuestions(r.quizId)],
                        1, 1)
    /\ inflight' = [inflight EXCEPT ![s] = Idle]
    /\ UNCHANGED <<store, submitted>>

\* DELETE /api/quizzes/:id up to deleteQuiz's first statement and its
\* callback, which issues the second
DeleteQuiz(token, quizId) ==
    /\ authenticateToken(token) = 0
    /\ FreeSlots # {}
    /\ questions' = DeleteQuestionsOf(quizId)
    /\ inflight' = [inflight EXCEPT ![FreeSlot] =
           [op |-> "delete", token |-> token, quizId |-> quizId]]
    /\ UNCHANGED <<users, nextUserId, quizzes, nextQuizId, nextQuestionId,
                   results, nextResultId, last, submitted>>

\* deleteQuiz's second statement and its callback, and the handler's response
DeleteQuizRowStep(s) ==
    /\ inflight[s].op = "delete"
    /\ LET r == inflight[s]
           kept == DeleteQuizRow(r.quizId, r.token.userId)
           changes == Cardinality(quizzes) - Cardinality(kept)
       IN /\ quizzes' = kept
          /\ last' = Response("delete", r.token, r.quizId,
                              IF changes = 0 THEN 404 ELSE 200, NoBody, 1, 1)
    /\ inflight' = [inflight EXCEPT ![s] = Idle]
    /\ UNCHANGED <<users, nextUserId, nextQuizId, questions, nextQuestionId,
                   results, nextResultId, submitted>>

\* GET /api/my-quizzes
ListMyQuizzes(token) ==
    /\ authenticateToken(token) = 0
    /\ last' = Response("my-quizzes", token, 0, 200,
                        [rows |-> {z \in quizzes : z.user_id = token.userId}], 1, 1)
    /\ UNCHANGED <<store, inflight, submitted>>

(* --------------------- Server.js: result handlers ---------------------- *)
\* JSON.stringify(answers): undefined for undefined, else the JSON text
NoText == [undefined |-> TRUE]
Stringify(answers) ==
    IF answers = Undefined THEN NoText ELSE [json |-> answers]

\* INSERT INTO quiz_results fails when answers (NOT NULL) is bound to NULL
SaveResultFails(answersText) == answersText = NoText

\* POST /api/quiz-results
SaveResult(token, quizId, score, totalQuestions, timeTaken, answers) ==
    /\ authenticateToken(token) = 0
    /\ IF quizId = 0 \/ score = NoScore \/ totalQuestions = 0 \/ timeTaken = 0 THEN
           /\ last' = Response("save-result", token, quizId, 400, NoBody, 0, 1)
           /\ UNCHANGED <<store, inflight, submitted>>
       ELSE IF SaveResultFails(Stringify(answers)) THEN
           /\ last' = Response("save-result", token, quizId, 500, NoBody, 1, 1)
           /\ UNCHANGED <<store, inflight, submitted>>
       ELSE
           /\ nextResultId <= MaxResults
           /\ results' = results \cup
                  {[id |-> nextResultId, quiz_id |-> quizId, user_id |-> token.userId,
                    score |-> score.value, total_questions |-> totalQuestions,
                    time_taken |-> timeTaken]}
           /\ nextResultId' = nextResultId + 1
           /\ last' = Response("save-result", token, quizId, 200,
                               [resultId |-> nextResultId], 1, 1)
           /\ UNCHANGED <<users, nextUserId, quizzes, nextQuizId, questions,
                          nextQuestionId, inflight, submitted>>

\* SELECT qr.*, q.title AS quiz_title FROM quiz_results qr
\* JOIN quizzes q ON qr.quiz_id = q.id WHERE qr.user_id = ?
ResultsByUser(userId) ==
    {[result |-> p[1], quiz_title |-> p[2].title] :
        p \in {x \in results \X quizzes :
                  x[1].quiz_id = x[2].id /\ x[1].user_id = userId}}

\* GET /api/my-results
ListMyResults(token) ==
    /\ authenticateToken(token) = 0
    /\ last' = Response("my-results", token, 0, 200,
                        [rows |-> ResultsByUser(token.userId)], 1, 1)
    /\ UNCHANGED <<store, inflight, submitted>>

(* ------------------------ Server.js: register -------------------------- *)
\* INSERT INTO users fails when username or email is already present
\* (both columns are UNIQUE)
CreateUserFailsMutant(username, email) ==
    \E u \in users : u.username = username
CreateUserFails(username, email) ==
    \E u \in users : u.username = username \/ u.email = email

\* SELECT * FROM users WHERE email = ?
UserByEmailMutant(email) == {u \in users : u.username = email}
UserByEmail(email) == {u \in users : u.email = email}

\* POST /api/register up to getUserByEmail's callback, which answers 400
\* or hashes the password and issues createUser
Register(username, email, password) ==
    IF username = "" \/ email = "" \/ password = <<>> THEN
        /\ last' = Response("register", NoToken, 0, 400,
                            [error |-> "All fields are required"], 0, 1)
        /\ UNCHANGED <<store, inflight, submitted>>
    ELSE IF Len(password) < MinPasswordLength THEN
        /\ last' = Response("register", NoToken, 0, 400,
                            [error |-> "Password must be at least 6 characters long"],
                            0, 1)
        /\ UNCHANGED <<store, inflight, submitted>>
    ELSE IF UserByEmail(email) # {} THEN
        /\ last' = Response("register", NoToken, 0, 400,
                            [error |-> "User already exists"], 1, 1)
        /\ UNCHANGED <<store, inflight, submitted>>
    ELSE
        /\ FreeSlots # {}
        /\ inflight' = [inflight EXCEPT ![FreeSlot] =
               [op |-> "register", username |-> username, email |-> email]]
        /\ UNCHANGED <<store, last, submitted>>

\* createUser's statement and its callback, and the handler's response
CreateUser(s) ==
    /\ inflight[s].op = "register"
    /\ LET r == inflight[s] IN
       IF CreateUserFails(r.username, r.email) THEN
           /\ last' = Response("register", NoToken, 0, 500,
                               [error |-> "Error creating user"], 2, 1)
           /\ UNCHANGED <<users, nextUserId>>
       ELSE
           /\ users' = users \cup
                  {[id |-> nextUserId, username |-> r.username, email |-> r.email]}
           /\ nextUserId' = nextUserId + 1
           /\ last' = Response("register", NoToken, 0, 201,
                               [token |-> Sign(nextUserId, r.username, JWT_SECRET),
                                user |-> [id |-> nextUserId, username |-> r.username,
                                          email |-> r.email]], 2, 1)
    /\ inflight' = [inflight EXCEPT ![s] = Idle]
    /\ UNCHANGED <<quizzes, nextQuizId, questions, nextQuestionId, results,
                   nextResultId, submitted>>

(* --------------------------- specification ----------------------------- *)
\* registration, from the empty store
NextRegister ==
    \/ \E u \in Usernames \cup {""}, e \in Emails \cup {""}, p \in Passwords :
           Register(u, e, p)
    \/ \E s \in 1..MaxInFlight : CreateUser(s)

SpecRegister == Init /\ [][NextRegister]_vars

\* a state SpecRegister reaches: alice and bob have registered
InitRegistered ==
    /\ users = {[id |-> 1, username |-> "alice", email |-> "a@x"],
                [id |-> 2, username |-> "bob", email |-> "b@x"]}
    /\ nextUserId = 3
    /\ quizzes = {}
    /\ nextQuizId = 1
    /\ questions = {}
    /\ nextQuestionId = 1
    /\ results = {}
    /\ nextResultId = 1
    /\ inflight = [s \in 1..MaxInFlight |-> Idle]
    /\ last = Response("none", NoToken, 0, 0, NoBody, 0, 0)
    /\ submitted = [q \in QuizIds |-> <<>>]

\* no request is being handled
Quiet == \A s \in 1..MaxInFlight : inflight[s] = Idle

\* the arrival of a request for a quiz
QuizRequest ==
    \/ \E op \in {"create", "get", "delete"}, t \in Tokens : Reject(op, t)
    \/ \E t \in Tokens, b \in QuizBodies : CreateQuiz(t, b.title, b.questions)
    \/ \E t \in Tokens, q \in QuizIds : GetQuiz(t, q)
    \/ \E t \in Tokens, q \in QuizIds : DeleteQuiz(t, q)

\* the completion of a statement a quiz request waits for
QuizCallback ==
    \/ \E s \in 1..MaxInFlight, i \in 1..MaxQuestions : AddQuestion(s, i)
    \/ \E s \in 1..MaxInFlight : GetQuizQuestions(s)
    \/ \E s \in 1..MaxInFlight : DeleteQuizRowStep(s)

\* every protected operation among registered users, one request at a time
Next ==
    \/ Quiet /\ \E op \in ProtectedOps, t \in Tokens : Reject(op, t)
    \/ Quiet /\ \E t \in Tokens : ListMyQuizzes(t)
    \/ Quiet /\ \E t \in Tokens, b \in QuizBodies : CreateQuiz(t, b.title, b.questions)
    \/ Quiet /\ \E t \in Tokens, q \in QuizIds : GetQuiz(t, q)
    \/ Quiet /\ \E t \in Tokens, q \in QuizIds : DeleteQuiz(t, q)
    \/ Quiet /\ \E t \in Tokens, b \in ResultBodies :
           SaveResult(t, b.quizId, b.score, b.totalQuestions, b.timeTaken, b.answers)
    \/ Quiet /\ \E t \in Tokens : ListMyResults(t)
    \/ QuizCallback

Spec == InitRegistered /\ [][Next]_vars

\* the quiz operations among registered users, up to MaxInFlight requests
\* at a time, their statements interleaved
NextConcurrent ==
    \/ QuizRequest
    \/ QuizCallback

SpecConcurrent == InitRegistered /\ [][NextConcurrent]_vars

(* ------------------------------ claims --------------------------------- *)
\* the owner of quiz q, as a set (empty when the quiz row is absent)
OwnersOf(q) == {z.user_id : z \in QuizRows(q)}

QuestionsOf(q) == {x \in questions : x.quiz_id = q}

\* C1: Delete-Quiz by an authenticated user who is not the quiz's owner
\* answers 404 and leaves the store unchanged: the quiz row and every
\* question row of the quiz are still there.  Stated of the two steps of
\* such a request: neither changes a table, and the second answers 404.
C1_NonOwnerDeleteChangesNothing ==
    [][ /\ \A t \in Tokens, q \in QuizIds :
             (DeleteQuiz(t, q) /\ OwnersOf(q) # {} /\ t.userId \notin OwnersOf(q))
                 => UNCHANGED <<quizzes, questions>>
        /\ \A s \in 1..MaxInFlight :
             (DeleteQuizRowStep(s) /\ OwnersOf(inflight[s].quizId) # {}
                 /\ inflight[s].token.userId \notin OwnersOf(inflight[s].quizId))
                 => (last'.status = 404 /\ UNCHANGED <<quizzes, questions>>) ]_vars

\* C2: when Delete-Quiz by the quiz's owner completes with success, neither
\* the quiz row nor any question row of that quiz id remains, and every
\* Get-Quiz that arrives for a quiz id whose row has been deleted answers 404.
C2_OwnerDeleteRemovesAll ==
    [][ /\ \A s \in 1..MaxInFlight :
             (DeleteQuizRowStep(s) /\ last'.status = 200)
                 => LET q == inflight[s].quizId
                    IN (\A z \in quizzes' : z.id # q) /\ (\A x \in questions' : x.quiz_id # q)
        /\ \A t \in Tokens, q \in QuizIds :
             (GetQuiz(t, q) /\ q < nextQuizId /\ QuizRows(q) = {})
                 => (last'.op = "get" /\ last'.id = q /\ last'.status = 404) ]_vars

\* an owner's Delete-Quiz for quiz q is being handled
OwnerDeleting(q) ==
    \E s \in 1..MaxInFlight :
        /\ inflight[s].op = "delete"
        /\ inflight[s].quizId = q
        /\ inflight[s].token.userId \in OwnersOf(q)

\* C3: for a quiz whose Create-Quiz was answered 201 and which its owner has
\* not asked to delete, Get-Quiz returns as many questions as were submitted,
\* question i of the request being question i of the result.
C3_GetReturnsSubmittedOrder ==
    [][ \A s \in 1..MaxInFlight :
          (GetQuizQuestions(s) /\ submitted[inflight[s].quizId] # <<>>
              /\ QuizRows(inflight[s].quizId) # {} /\ ~OwnerDeleting(inflight[s].quizId))
              => LET sub == submitted[inflight[s].quizId]
                     got == last'.body.questions
                 IN /\ Len(got) = Len(sub)
                    /\ \A i \in 1..Len(got) :
                          got[i].text = sub[i].text /\ got[i].correct = sub[i].correct ]_vars

\* C4: every question Get-Quiz returns for a quiz whose Create-Quiz was
\* answered 201 has an option list without null or empty entries and a
\* correct-answer value that is an index into that list.
C4_CorrectIndexesFilteredOptions ==
    [][ \A s \in 1..MaxInFlight :
          (GetQuizQuestions(s) /\ submitted[inflight[s].quizId] # <<>>)
              => \A i \in 1..Len(last'.body.questions) :
                    LET q == last'.body.questions[i]
                    IN /\ \A k \in 1..Len(q.options) : q.options[k] \notin {Null, Undefined, ""}
                       /\ 0 <= q.correct
                       /\ q.correct < Len(q.options) ]_vars

\* C5: a Register request whose email is already registered is answered
\* 400, and "User already exists" when its fields pass validation; it
\* creates no user row, issues no createUser and no token.
C5_DuplicateEmailIsConflict ==
    [][ \A u \in Usernames \cup {""}, e \in Emails, p \in Passwords :
          (Register(u, e, p) /\ \E x \in users : x.email = e)
              => /\ last'.op = "register"
                 /\ last'.status = 400
                 /\ (u # "" /\ Len(p) >= MinPasswordLength)
                        => last'.body = [error |-> "User already exists"]
                 /\ UNCHANGED <<users, nextUserId, inflight>> ]_vars

C5_Witness ==
    /\ last.op = "register"
    /\ last.status = 400
    /\ last.body = [error |-> "User already exists"]
    /\ users # {}

\* C6: a Register request that duplicates an existing username, with an
\* email that is not registered, is answered 400 and creates no user.
C6_DuplicateUsernameIsConflict ==
    [][ \A s \in 1..MaxInFlight :
          (CreateUser(s)
              /\ (\E x \in users : x.username = inflight[s].username)
              /\ ~(\E x \in users : x.email = inflight[s].email))
              => (last'.status = 400 /\ UNCHANGED users) ]_vars

\* the rows List-My-Results returns to the user of result r hold r
Listed(r) == \E row \in ResultsByUser(r.user_id) : row.result = r

\* C7: a result saved (answered 200) for an existing quiz is in its user's
\* List-My-Results with that quiz's title from then on: it is listed right
\* after the save, and a listed result stays listed.
C7_SavedResultsStayListed ==
    [][ /\ \A t \in Tokens, b \in ResultBodies :
             (SaveResult(t, b.quizId, b.score, b.totalQuestions, b.timeTaken, b.answers)
                 /\ last'.status = 200 /\ QuizRows(b.quizId) # {})
                 => \E row \in ResultsByUser(t.userId)' :
                       /\ row.result.id = last'.body.resultId
                       /\ row.result.score = b.score.value
                       /\ row.quiz_title \in {z.title : z \in QuizRows(b.quizId)}
        /\ \A r \in results : Listed(r) => Listed(r)' ]_vars

\* in every state: a handler in flight was started by a verified token,
\* and the last response of a protected route is 401/403 with no
\* persistence call exactly when its token did not verify
C8_State ==
    /\ \A s \in 1..MaxInFlight :
          inflight[s].op \in ProtectedOps => inflight[s].token.sig = JWT_SECRET
    /\ last.op \in ProtectedOps =>
          /\ last.token = NoToken => (last.status = 401 /\ last.dbCalls = 0)
          /\ (last.token # NoToken /\ last.token.sig # JWT_SECRET)
                => (last.status = 403 /\ last.dbCalls = 0)
          /\ last.status \in {401, 403} => last.token.sig # JWT_SECRET

\* the step that answers an unverified request changes no table and starts
\* no handler
C8_Step ==
    \A op \in ProtectedOps, t \in Tokens :
        (t.sig # JWT_SECRET /\ last' = Response(op, t, 0, last'.status, NoBody, 0, 1)
            /\ last' # last)
            => UNCHANGED <<store, inflight>>

\* C8: a protected operation runs only for a token that verifies.  A
\* request without a token is answered 401 and one whose token fails
\* verification 403, in both cases with no persistence operation invoked,
\* no handler started and the store unchanged.
C8_GateBeforePersistence == []C8_State /\ [][C8_Step]_vars

C8_Witness ==
    /\ last.op = "delete"
    /\ last.status = 403
    /\ questions # {}

\* the add-question writes of request r that fail
FailingWrites(r) ==
    {j \in 1..Len(r.questions) :
        AddQuestionFails(QuestionData(r.quizId, r.questions[j], j - 1))}

\* the step is the one in which the Create-Quiz request in slot s responds
CreateResponds(s) ==
    /\ inflight[s].op = "create"
    /\ \E i \in inflight[s].pending : AddQuestion(s, i)
    /\ last' # last

\* C9 as claimed: Create-Quiz answers 201 even when some of its
\* add-question writes fail.
C9_SuccessDespiteFailedWrites ==
    [][ \A s \in 1..MaxInFlight :
          (CreateResponds(s) /\ FailingWrites(inflight[s]) # {})
              => last'.status = 201 ]_vars

\* C9 as amended: Create-Quiz answers 500 when any of its add-question
\* writes failed and 201 only when all succeeded; either way the quiz row
\* it inserted is not removed by the handler.
C9_FailureIsReported ==
    [][ \A s \in 1..MaxInFlight :
          CreateResponds(s)
              => /\ last'.op = "create"
                 /\ last'.status = IF FailingWrites(inflight[s]) # {} THEN 500 ELSE 201
                 /\ UNCHANGED quizzes ]_vars

C9_Witness ==
    /\ last.op = "create"
    /\ last.status = 500
    /\ QuizRows(last.id) # {}
    /\ QuestionsOf(last.id) # {}

\* in every state: a Create-Quiz in flight has writes pending and has not
\* responded, and a Create-Quiz response was sent once, with all writes settled
C10_State ==
    /\ \A s \in 1..MaxInFlight :
          inflight[s].op = "create" =>
              /\ inflight[s].responses = 0
              /\ inflight[s].pending # {}
              /\ inflight[s].questionsAdded + Cardinality(inflight[s].pending)
                     = Len(inflight[s].questions)
    /\ (last.op = "create" /\ last.status \in {201, 500}) =>
          /\ last.responses = 1
          /\ last.body.settled = last.body.total

\* a step of a Create-Quiz in flight responds exactly when it settles the
\* last pending write
C10_Step ==
    \A s \in 1..MaxInFlight :
        (inflight[s].op = "create" /\ inflight'[s] # inflight[s])
            => IF inflight'[s] = Idle
               THEN /\ last' # last
                    /\ last'.op = "create"
                    /\ last'.id = inflight[s].quizId
                    /\ last'.token = inflight[s].token
                    /\ last'.responses = 1
               ELSE last' = last

\* C10: a Create-Quiz request whose quiz insert succeeded responds exactly
\* once, in the step in which the last of its add-question writes settles:
\* while a write is pending it has not responded, whatever the order of
\* completion and whichever writes failed.
C10_OneResponseAfterAllWrites == []C10_State /\ [][C10_Step]_vars

C10_Witness ==
    /\ last.op = "create"
    /\ last.status = 500
    /\ last.body.total >= 2
    /\ last.body.settled = last.body.total
    /\ Cardinality(QuestionsOf(last.id)) = 1

\* C11: under every interleaving of Register requests, no two user rows
\* share an id, an email or a username, user rows are never removed, and a
\* Register is answered 201 with a token only in a step that inserts the one
\* row holding its email and username, neither of which was stored before:
\* of the requests racing for one email at most one is answered 201.
C11_RegisterRaceKeepsUsersUnique ==
    /\ [](\A u1 \in users, u2 \in users :
             (u1.id = u2.id \/ u1.email = u2.email \/ u1.username = u2.username)
                 => u1 = u2)
    /\ [][ /\ users \subseteq users'
           /\ \A s \in 1..MaxInFlight :
                (CreateUser(s) /\ last'.status = 201)
                    => /\ ~(\E x \in users : x.email = inflight[s].email
                                               \/ x.username = inflight[s].username)
                       /\ users' \ users = {last'.body.user}
                       /\ last'.body.user.email = inflight[s].email
                       /\ last'.body.token.userId = last'.body.user.id
           /\ \A s \in 1..MaxInFlight :
                (CreateUser(s) /\ \E x \in users : x.email = inflight[s].email)
                    => (last'.status # 201 /\ UNCHANGED users) ]_vars

\* a Register that passed the email check is waiting to insert while another
\* request, under another username, has inserted a row with its email
C11_Witness ==
    \E s \in 1..MaxInFlight :
        /\ inflight[s].op = "register"
        /\ \E u \in users :
              u.email = inflight[s].email /\ u.username # inflight[s].username

\* C12: when no request is in flight, every question row of a quiz whose
\* Create-Quiz was answered 201 (all of its writes succeeded) belongs to a
\* quiz row that is still stored, however the statements of Create-Quiz and
\* Delete-Quiz on that quiz id were interleaved.
C12_NoOrphanedQuestions ==
    \A s \in 1..MaxInFlight : inflight[s] = Idle
        => \A x \in questions :
              submitted[x.quiz_id] # <<>> => QuizRows(x.quiz_id) # {}

====
